---- MODULE Spec2Model ----
(***************************************************************************)
(* Model of src/pong.js: the per-frame game-state update (movePaddles,     *)
(* moveBall, resetBall), the key listeners, the tempo-to-speed mapper      *)
(* (updateBallSpeed) driven by the beat detector, and the music controls   *)
(* (toggleMusic, initAudio, detectBPM, the volume slider), whose async     *)
(* handlers are followed from await to await.                              *)
(*                                                                         *)
(* Lengths are JavaScript numbers in the source.  Here they are fixed      *)
(* point integers, Unit model units to the pixel, rounded to the nearest   *)
(* unit, so that 7.1493 px/frame is 7149.  Math.pow(x, 0.7) is tabulated   *)
(* to seven decimals.                                                      *)
(***************************************************************************)
EXTENDS Integers, Sequences, FiniteSets, TLC

\* ------------------------------------------------------------ bounds ----
\* Frames the game loop runs in one explored execution.
MaxFrames == 61
\* Key events delivered between the frames of one explored execution.
MaxEvents == 1
\* Math.random() is drawn from {0/RandomDenom, ..., (RandomDenom-1)/RandomDenom}.
RandomDenom == 4
\* Frames run from each state of the frame-input grid (FrameSpec).
GridFrames == 1
\* detectBPM callbacks that analyse a sample from each state of the grid.
GridCycles == 1
\* Frames of a match played out without key input (MatchSpec).
MatchFrames == 545
\* Calls of updateBallSpeed made from each input of the mapper (MapSpec).
MapCalls == 2
\* Frames and key events of KeySpec.
KeyFrames == 38
KeyEvents == 2
\* Frames of a match run with no event at all (IdleSpec).
IdleFrames == 620
\* Clicks on the music controls, detectBPM callbacks that analyse a sample,
\* and frames of AudioSpec.
MaxClicks == 2
MaxCycles == 3
AudioFrames == 1
\* Frames before the end of an explored execution from which the music
\* toggle is clicked beside a running game.
ClickFrames == 2
\* Clicks on the music toggle in an execution that switches the music on and
\* leaves it on.
GameClicks == 1
\* Frames from the start of an explored execution in which the keys are
\* touched beside the music.
KeyLead == 1

\* --------------------------------------------------------- constants ----
\* Model units per pixel.
Unit == 10 * 100
Px(n) == n * Unit

canvasWidth == Px(800)
canvasHeight == Px(600)
baseBallSpeed == Px(5)
defaultBPM == 120
minBPM == 40
radius == Px(10)
paddleHeight == Px(100)
paddleWidth == Px(10)
playerStep == Px(7)
computerSpeed == Px(5)
deadZone == Px(35)
\* Clamp of the detector's estimate (detectBPM) and of the multiplier.
detectMinBPM == 60
detectMaxBPM == 200

\* ----------------------------------------------------------- helpers ----
Max(a, b) == IF a >= b THEN a ELSE b
Min(a, b) == IF a <= b THEN a ELSE b
Abs(a) == IF a < 0 THEN -a ELSE a
\* Math.sign on numbers.
MathSign(v) == IF v > 0 THEN 1 ELSE IF v < 0 THEN -1 ELSE 0

\* The unit of a speed multiplier: Math.pow yields a double, kept here to
\* seven decimals, so that a speed computed from it is the code's speed
\* rounded to the nearest model unit for every tempo of the table.
PowUnit == 10 ^ 7
\* Multiplier units per model unit of a product with a whole number of pixels.
PowScale == PowUnit \div Unit

\* PowTable[b] = Math.pow(b / 120, 0.7) in units of 1/PowUnit, rounded to nearest.
PowTable ==
    <<
      350407,   569238,   756063,   924730,  1081066,  1228228,  1368175,  1502229,
     1631334,  1756197,  1877362,  1995262,  2110248,  2222607,  2332582,  2440378,
     2546170,  2650110,  2752331,  2852950,  2952070,  3049783,  3146173,  3241313,
     3335271,  3428108,  3519879,  3610636,  3700426,  3789291,  3877272,  3964406,
     4050726,  4136265,  4221053,  4305116,  4388482,  4471175,  4553217,  4634631,
     4715436,  4795652,  4875297,  4954388,  5032942,  5110973,  5188498,  5265529,
     5342080,  5418164,  5493792,  5568978,  5643730,  5718061,  5791979,  5865496,
     5938620,  6011360,  6083724,  6155722,  6227361,  6298648,  6369590,  6440196,
     6510472,  6580424,  6650059,  6719383,  6788401,  6857120,  6925545,  6993682,
     7061535,  7129110,  7196412,  7263445,  7330214,  7396723,  7462977,  7528980,
     7594735,  7660248,  7725521,  7790559,  7855365,  7919943,  7984296,  8048427,
     8112340,  8176038,  8239524,  8302801,  8365872,  8428739,  8491407,  8553877,
     8616152,  8678234,  8740127,  8801833,  8863354,  8924692,  8985850,  9046831,
     9107635,  9168267,  9228726,  9289017,  9349140,  9409098,  9468893,  9528526,
     9588000,  9647316,  9706477,  9765483,  9824337,  9883040,  9941593, 10000000,
    10058261, 10116377, 10174351, 10232183, 10289876, 10347430, 10404848, 10462130,
    10519278, 10576293, 10633177, 10689930, 10746555, 10803052, 10859423, 10915669,
    10971791, 11027790, 11083667, 11139424, 11195062, 11250581, 11305984, 11361270,
    11416441, 11471498, 11526442, 11581274, 11635995, 11690606, 11745107, 11799501,
    11853787, 11907967, 11962042, 12016012, 12069878, 12123642, 12177303, 12230863,
    12284323, 12337684, 12390946, 12444109, 12497176, 12550146, 12603021, 12655801,
    12708486, 12761078, 12813578, 12865985, 12918301, 12970526, 13022662, 13074708,
    13126665, 13178535, 13230317, 13282012, 13333622, 13385146, 13436585, 13487939,
    13539210, 13590398, 13641504, 13692528, 13743470, 13794331, 13845112, 13895814,
    13946436, 13996980, 14047445, 14097834, 14148144, 14198379, 14248537, 14298620,
    14348628, 14398561, 14448420, 14498205, 14547918, 14597557, 14647124, 14696620,
    14746044, 14795397, 14844680, 14893893, 14943036, 14992110, 15041116, 15090053,
    15138922, 15187723, 15236458, 15285125, 15333727, 15382262, 15430732, 15479137,
    15527477, 15575752, 15623964, 15672112, 15720196, 15768218, 15816177, 15864074,
    15911908, 15959682, 16007394, 16055045, 16102636, 16150166, 16197637, 16245048,
    16292400, 16339693, 16386927, 16434103, 16481221, 16528282, 16575285, 16622231,
    16669120, 16715953, 16762729, 16809450, 16856115, 16902725, 16949280, 16995780,
    17042226, 17088617, 17134955, 17181239, 17227469, 17273647, 17319771, 17365843,
    17411863, 17457831, 17503746, 17549611, 17595423, 17641185, 17686896, 17732557,
    17778167, 17823727, 17869237, 17914698, 17960109, 18005471, 18050784, 18096048,
    18141264, 18186432, 18231552, 18276624, 18321648, 18366625, 18411554, 18456437,
    18501273, 18546063, 18590806, 18635503, 18680154, 18724760, 18769320, 18813835,
    18858304, 18902729, 18947109, 18991445, 19035736, 19079983, 19124186, 19168346,
    19212462, 19256534, 19300564, 19344550, 19388493, 19432394, 19476253, 19520069,
    19563843, 19607575, 19651265, 19694914, 19738521, 19782087, 19825612, 19869096,
    19912540, 19955942, 19999305, 20042627, 20085909, 20129151, 20172353, 20215515,
    20258639, 20301722, 20344767, 20387773, 20430740, 20473668, 20516558, 20559409,
    20602222, 20644997, 20687734, 20730433, 20773094, 20815718, 20858305, 20900854,
    20943367, 20985842, 21028280, 21070682, 21113048, 21155376, 21197669, 21239926,
    21282146, 21324331, 21366480, 21408593, 21450671, 21492713, 21534721, 21576693,
    21618630, 21660532, 21702400, 21744233, 21786032, 21827796, 21869526, 21911222,
    21952884, 21994512, 22036107, 22077667, 22119195, 22160689, 22202149, 22243577,
    22284971, 22326332, 22367661, 22408957, 22450220, 22491451, 22532650, 22573816,
    22614950, 22656052, 22697123, 22738161, 22779168, 22820143, 22861086, 22901998,
    22942879, 22983729, 23024547, 23065335, 23106091, 23146817, 23187512, 23228177
    >>

\* Math.pow(bpm / 120, 0.7) for bpm >= 1.  Beyond the table the power exceeds
\* the upper clamp of the multiplier (it already does at 324), so the last
\* entry stands for every larger bpm.
Pow07(bpm) == IF bpm > Len(PowTable) THEN PowTable[Len(PowTable)] ELSE PowTable[bpm]

\* ---------------------------------------------- tempo-to-speed mapper ----
\* A currentBPM that holds no number (undefined, NaN). JavaScript makes it
\* falsy and makes every comparison with it false; the model keeps it as one
\* value that lies above minBPM, so that only the falsy test catches it.
absentBPM == 10 ^ 6

\* !currentBPM
falsyBPM(bpm) == bpm = 0 \/ bpm = absentBPM

\* Mutant of validBPM: only the comparison, without the falsy test.
validBPMCompareOnly(bpm) == IF bpm < minBPM THEN defaultBPM ELSE bpm

\* Mutant of validBPM: values above the detector's ceiling are replaced too.
validBPMTwoSided(bpm) ==
    IF falsyBPM(bpm) \/ bpm < minBPM \/ bpm > detectMaxBPM THEN defaultBPM ELSE bpm

\* if (!currentBPM || currentBPM < 40) currentBPM = 120;
validBPM(bpm) == IF falsyBPM(bpm) \/ bpm < minBPM THEN defaultBPM ELSE bpm

\* The bounds of Math.max(0.5, Math.min(2, ...)), in 1/PowUnit.
minMultiplier == PowUnit \div 2
maxMultiplier == 2 * PowUnit

\* Mutant of speedMultiplier: the tempo is normalised upside down, 120 / bpm.
speedMultiplierInverted(bpm) ==
    Max(minMultiplier, Min(maxMultiplier, Pow07(Max(1, (defaultBPM * defaultBPM) \div bpm))))

\* Mutant of speedMultiplier: the tempo is normalised by 100 instead of 120.
speedMultiplierPer100(bpm) ==
    Max(minMultiplier, Min(maxMultiplier, Pow07((bpm * defaultBPM) \div 100)))

\* Mutant of speedMultiplier: the power curve without Math.max and Math.min.
speedMultiplierUnclamped(bpm) == Pow07(bpm)

\* Math.max(0.5, Math.min(2, Math.pow(normalizedBPM, 0.7))), in 1/PowUnit.
speedMultiplier(bpm) == Max(minMultiplier, Min(maxMultiplier, Pow07(bpm)))

\* baseBallSpeed * m for a multiplier m in 1/PowUnit: the product in model
\* units, rounded to nearest (baseBallSpeed is a whole number of pixels).
timesBase(m) == ((baseBallSpeed \div Unit) * m + PowScale \div 2) \div PowScale

\* baseBallSpeed * speedMultiplier
speedFor(bpm) == timesBase(speedMultiplier(bpm))

\* Mutant of withSpeed: the new speed is assigned without the sign.
withSpeedUnsigned(b, s) == [b EXCEPT !.speed = s, !.dx = s, !.dy = s]

\* Mutant of withSpeed: the velocity is rescaled from its current value
\* instead of being rebuilt from its sign.
withSpeedRescaled(b, s) ==
    [b EXCEPT !.speed = s, !.dx = (b.dx * s) \div baseBallSpeed,
              !.dy = (b.dy * s) \div baseBallSpeed]

\* ball.dx = ball.speed * Math.sign(ball.dx); likewise dy.
withSpeed(b, s) ==
    [b EXCEPT !.speed = s, !.dx = s * MathSign(b.dx), !.dy = s * MathSign(b.dy)]

\* Mutant of updateBallSpeed: the new speed is smoothed with the speed the
\* ball had.
updateBallSpeedSmoothed(b, bpm) ==
    [ball |-> withSpeed(b, (b.speed + speedFor(validBPM(bpm))) \div 2),
     currentBPM |-> validBPM(bpm)]

\* updateBallSpeed(): the ball and currentBPM it leaves.
updateBallSpeed(b, bpm) ==
    [ball |-> withSpeed(b, speedFor(validBPM(bpm))), currentBPM |-> validBPM(bpm)]

\* Mutant of detectedBPM: the rounded estimate is published as it is.
detectedBPMUnclamped(raw) == raw

\* currentBPM = Math.max(60, Math.min(200, Math.round(beatCount * (120 / timeSinceUpdate))))
\* raw is the rounded estimate.
detectedBPM(raw) == Max(detectMinBPM, Min(detectMaxBPM, raw))

\* ------------------------------------------------------ tempo detector ----
\* audioContext.currentTime is a double, in seconds.  The clock is read here
\* on a grid of ClockUnit readings to the second, a power of two: every
\* reading and every difference of two readings is then a double, so the
\* code's subtractions (now - lastUpdateTime, now - lastBeatTime) are exact.
ClockUnit == 2 ^ 3
historySize == 10
\* timeSinceUpdate >= 0.5
updateWindow == ClockUnit \div 2
\* timeSinceLastBeat > 0.2, for a difference d of two readings: 0.2 is not on
\* the grid, and no difference is nearer to it than 0.05.
overBeatGap(d) == 5 * d > ClockUnit

RECURSIVE SumSeq(_)
SumSeq(h) == IF h = <<>> THEN 0 ELSE Head(h) + SumSeq(Tail(h))

\* energyHistory.push(bassEnergy); shift() once it is longer than historySize
pushEnergy(h, e) ==
    LET h1 == Append(h, e) IN IF Len(h1) > historySize THEN Tail(h1) ELSE h1

\* The whole-number samples e for which the double (5e/6) * 1.2 is the double
\* just below e rather than e: Math computes avgEnergy = sum / length and
\* avgEnergy * 1.2 in doubles, 1.2 is not a double, and when the sample is
\* exactly 1.2 times the mean (the mean is then 5e/6) the rounded product
\* decides the comparison.  For the other samples up to 255 it is e itself.
BeatAtThreshold ==
    {
        7,  11,  14,  22,  25,  28,  31,  41,  44,  47,  50,  53,
       56,  59,  62,  79,  82,  85,  88,  91,  94,  97, 100, 103,
      106, 109, 112, 115, 118, 121, 124, 127, 155, 158, 161, 164,
      167, 170, 173, 176, 179, 182, 185, 188, 191, 194, 197, 200,
      203, 206, 209, 212, 215, 218, 221, 224, 227, 230, 233, 236,
      239, 242, 245, 248, 251, 254
    }

\* bassEnergy > avgEnergy * 1.2 && avgEnergy > 0, avgEnergy the mean of h,
\* for whole-number samples from 0 to 255 (the analyser's bytes): above the
\* threshold, or on it where the doubles fall below it.
isBeat(h, e) ==
    /\ SumSeq(h) > 0
    /\ \/ e * Len(h) * 10 > SumSeq(h) * 12
       \/ e * Len(h) * 10 = SumSeq(h) * 12 /\ e \in BeatAtThreshold

\* Math.round(beatCount * (120 / timeSinceUpdate)), timeSinceUpdate a number
\* of clock readings: the quotient rounded half up.  The doubles round the
\* same way for every window shorter than 176 s (1408 readings).
roundedBPM(count, tsu) == (2 * count * 120 * ClockUnit + tsu) \div (2 * tsu)

\* detectBPM() past its isMusicPlaying test, on a sample e read dt after the
\* clock was last read.  S holds ball, currentBPM and the detector's variables;
\* the result adds whether the callback published an estimate (called
\* updateBallSpeed) and the tempo it wrote into currentBPM before the call.
analyse(S, e, dt) ==
    LET h == pushEnergy(S.energyHistory, e)
        now == S.audioTime + dt
        timeSinceUpdate == now - S.lastUpdateTime
        window == timeSinceUpdate >= updateWindow
        publish == window /\ S.beatCount > 0
        written == detectedBPM(roundedBPM(S.beatCount, timeSinceUpdate))
        u == updateBallSpeed(S.ball, written)
        count == IF window THEN 0 ELSE S.beatCount
        beat == isBeat(h, e) /\ overBeatGap(now - S.lastBeatTime)
    IN  [ball |-> IF publish THEN u.ball ELSE S.ball,
         currentBPM |-> IF publish THEN u.currentBPM ELSE S.currentBPM,
         beatCount |-> IF beat THEN count + 1 ELSE count,
         lastBeatTime |-> IF beat THEN now ELSE S.lastBeatTime,
         lastUpdateTime |-> IF window THEN now ELSE S.lastUpdateTime,
         energyHistory |-> h,
         audioTime |-> now,
         published |-> publish,
         written |-> IF publish THEN written ELSE S.currentBPM]

\* Mutant of detectCycle: the callback analyses whether the music plays or not.
detectCycleUnguarded(S, playing, e, dt) == analyse(S, e, dt)

\* One detectBPM() callback: if (!isMusicPlaying) it only re-schedules itself.
detectCycle(S, playing, e, dt) == IF ~playing THEN S ELSE analyse(S, e, dt)

\* --------------------------------------------------- paddle controller ----
\* Mutant of movePlayer: each move stops at the edge of the canvas.
movePlayerClamped(y, up, down) ==
    LET y1 == IF up /\ y > 0 THEN Max(0, y - playerStep) ELSE y
    IN  IF down /\ y1 + paddleHeight < canvasHeight
        THEN Min(canvasHeight - paddleHeight, y1 + playerStep) ELSE y1

\* The two guarded 7-pixel moves of the human paddle, in source order.
movePlayer(y, up, down) ==
    LET y1 == IF up /\ y > 0 THEN y - playerStep ELSE y
    IN  IF down /\ y1 + paddleHeight < canvasHeight THEN y1 + playerStep ELSE y1

\* Mutant of moveComputer: the dead zone without its two edges.
moveComputerInclusive(y, ballY) ==
    LET computerCenter == y + paddleHeight \div 2
    IN  IF computerCenter <= ballY - deadZone THEN y + computerSpeed
        ELSE IF computerCenter >= ballY + deadZone THEN y - computerSpeed ELSE y

\* The dead-zone rule of the computer paddle; ballY is ball.y when it runs.
moveComputer(y, ballY) ==
    LET computerCenter == y + paddleHeight \div 2
    IN  IF computerCenter < ballY - deadZone THEN y + computerSpeed
        ELSE IF computerCenter > ballY + deadZone THEN y - computerSpeed
        ELSE y

\* ------------------------------------------------- kinematics engine ----
\* Mutant of integrate: the wall test runs before the position is advanced.
integrateAfterWall(b) ==
    LET dy == IF b.y + radius > canvasHeight \/ b.y - radius < 0 THEN -b.dy ELSE b.dy
    IN  [b EXCEPT !.x = b.x + b.dx, !.y = b.y + dy]

\* Mutant of integrate: only y is advanced.
integrateVerticalOnly(b) == [b EXCEPT !.y = b.y + b.dy]

\* ball.x += ball.dx; ball.y += ball.dy;
integrate(b) == [b EXCEPT !.x = b.x + b.dx, !.y = b.y + b.dy]

\* Mutant of hitsWall: only the bottom wall reflects.
hitsWallBottomOnly(b) == b.y + radius > canvasHeight

\* Top and bottom collisions.
hitsWall(b) == b.y + radius > canvasHeight \/ b.y - radius < 0
wallCollide(b) == IF hitsWall(b) THEN [b EXCEPT !.dy = -b.dy] ELSE b

\* Mutant of hitsPlayer: the vertical band includes its two ends.
hitsPlayerInclusive(b, py) ==
    b.x - radius < paddleWidth /\ b.y >= py /\ b.y <= py + paddleHeight

\* Paddle collisions: py is player.y, cy is computer.y.
hitsPlayer(b, py) ==
    b.x - radius < paddleWidth /\ b.y > py /\ b.y < py + paddleHeight
hitsComputer(b, cy) ==
    b.x + radius > canvasWidth - paddleWidth /\ b.y > cy /\ b.y < cy + paddleHeight
\* Mutant of paddleCollide: both paddles are tested, whichever way the ball
\* travels.
paddleCollideUngated(b, py, cy) ==
    LET b1 == IF hitsPlayer(b, py) THEN [b EXCEPT !.dx = -b.dx] ELSE b
    IN  IF hitsComputer(b1, cy) THEN [b1 EXCEPT !.dx = -b1.dx] ELSE b1

\* Mutant of paddleCollide: a hit also puts the ball back on the paddle's face.
paddleCollideCorrected(b, py, cy) ==
    IF b.dx < 0
    THEN IF hitsPlayer(b, py)
         THEN [b EXCEPT !.dx = -b.dx, !.x = paddleWidth + radius] ELSE b
    ELSE IF hitsComputer(b, cy)
         THEN [b EXCEPT !.dx = -b.dx, !.x = canvasWidth - paddleWidth - radius] ELSE b

\* if (ball.dx < 0) the human paddle is tested, else the computer paddle.
paddleCollide(b, py, cy) ==
    IF b.dx < 0
    THEN IF hitsPlayer(b, py) THEN [b EXCEPT !.dx = -b.dx] ELSE b
    ELSE IF hitsComputer(b, cy) THEN [b EXCEPT !.dx = -b.dx] ELSE b

\* Mutant of scorer: the two sides are credited the wrong way round.
scorerSwapped(b) ==
    IF b.x + radius > canvasWidth THEN "computer"
    ELSE IF b.x - radius < 0 THEN "player"
    ELSE "none"

\* Mutant of scorer: a point is scored when the ball's centre is past the edge.
scorerByCentre(b) ==
    IF b.x > canvasWidth THEN "player"
    ELSE IF b.x < 0 THEN "computer"
    ELSE "none"

\* Scoring: who scores for the ball as the collision steps left it.
scorer(b) ==
    IF b.x + radius > canvasWidth THEN "player"
    ELSE IF b.x - radius < 0 THEN "computer"
    ELSE "none"

\* The draws Math.random() can return: r stands for r / RandomDenom in [0, 1).
RandomDraws == 0 .. (RandomDenom - 1)

\* Mutant of resetBall: the horizontal velocity of the serve is drawn like the
\* vertical one.
resetBallAnyAngle(b, r1, r2) ==
    [b EXCEPT !.x = canvasWidth \div 2,
              !.y = canvasHeight \div 2,
              !.dx = (b.speed * (2 * r1 - RandomDenom)) \div RandomDenom,
              !.dy = (b.speed * (2 * r2 - RandomDenom)) \div RandomDenom]

\* Mutant of resetBall: the serve uses the base speed, not the current one.
resetBallBase(b, r1, r2) ==
    [b EXCEPT !.x = canvasWidth \div 2,
              !.y = canvasHeight \div 2,
              !.dx = baseBallSpeed * (IF 2 * r1 > RandomDenom THEN 1 ELSE -1),
              !.dy = (baseBallSpeed * (2 * r2 - RandomDenom)) \div RandomDenom]

\* Mutant of resetBall: every serve is faster than the rally before it.
resetBallFaster(b, r1, r2) ==
    [b EXCEPT !.x = canvasWidth \div 2,
              !.y = canvasHeight \div 2,
              !.speed = b.speed + Unit \div 2,
              !.dx = (b.speed + Unit \div 2) * (IF 2 * r1 > RandomDenom THEN 1 ELSE -1),
              !.dy = ((b.speed + Unit \div 2) * (2 * r2 - RandomDenom)) \div RandomDenom]

\* resetBall(): r1 and r2 are its two Math.random() draws, in order.
resetBall(b, r1, r2) ==
    [b EXCEPT !.x = canvasWidth \div 2,
              !.y = canvasHeight \div 2,
              !.dx = b.speed * (IF 2 * r1 > RandomDenom THEN 1 ELSE -1),
              !.dy = (b.speed * (2 * r2 - RandomDenom)) \div RandomDenom]

\* ------------------------------------------------------------- state ----
VARIABLES
    ball,          \* [x, y, speed, dx, dy]
    player,        \* [y, score]
    computer,      \* [y, score]
    upPressed,
    downPressed,
    currentBPM,
    isMusicPlaying,
    audioContext,    \* "null", or audioContext.state: "suspended", "running"
    musicToggleText, \* musicToggle.textContent
    volume,          \* backgroundMusic.volume
    detectChains,    \* detectBPM callbacks waiting for the next animation frame
    beatCount,
    lastBeatTime,
    lastUpdateTime,  \* initAudio's local, read and written by detectBPM
    energyHistory,   \* initAudio's local, read and written by detectBPM
    audioTime,       \* audioContext.currentTime when it was last read
    toggles,         \* toggleMusic() calls suspended at each await
    framesLeft,    \* frames the loop may still run
    eventsLeft,    \* key events that may still arrive
    clicksLeft,    \* clicks on the toggle and slider moves that may still arrive
    cyclesLeft,    \* detectBPM callbacks that may still analyse a sample
    last           \* what the last handler did, step by step

gameVars == <<ball, player, computer, upPressed, downPressed>>
detectorVars == <<detectChains, beatCount, lastBeatTime, lastUpdateTime,
                  energyHistory, audioTime>>
audioVars == <<isMusicPlaying, audioContext, musicToggleText, volume,
               detectorVars, toggles, clicksLeft, cyclesLeft>>
vars == <<ball, player, computer, upPressed, downPressed, currentBPM,
          audioVars, framesLeft, eventsLeft, last>>

\* last records the handler that ran last: op names it, ball0, player0,
\* computer0 and bpm0 are the objects and currentBPM as it found them, and
\* bi, bw, bp are the ball after the
\* integration, wall and paddle steps of moveBall (before any resetBall).
\* For a handler that is not a frame nothing moved.  up0, down0 are the key
\* flags and audio0 the audio collaborator's variables as it found them.
\* pub tells that a detectBPM callback published an estimate; written is
\* then the tempo it wrote into currentBPM before it called updateBallSpeed.
Still(op) ==
    [op |-> op, ball0 |-> ball, player0 |-> player, computer0 |-> computer,
     bpm0 |-> currentBPM, bi |-> ball, bw |-> ball, bp |-> ball,
     up0 |-> upPressed, down0 |-> downPressed, key |-> "none",
     ok |-> TRUE, pub |-> FALSE, written |-> currentBPM,
     audio0 |-> [isMusicPlaying |-> isMusicPlaying, audioContext |-> audioContext,
                 musicToggleText |-> musicToggleText, volume |-> volume,
                 detectChains |-> detectChains, beatCount |-> beatCount,
                 lastBeatTime |-> lastBeatTime, lastUpdateTime |-> lastUpdateTime,
                 energyHistory |-> energyHistory, toggles |-> toggles]]

\* What a detectBPM() call finds: the ball, currentBPM and the detector's
\* variables.
detectorNow ==
    [ball |-> ball, currentBPM |-> currentBPM, beatCount |-> beatCount,
     lastBeatTime |-> lastBeatTime, lastUpdateTime |-> lastUpdateTime,
     energyHistory |-> energyHistory, audioTime |-> audioTime,
     published |-> FALSE, written |-> currentBPM]

ballInit ==
    [x |-> canvasWidth \div 2, y |-> canvasHeight \div 2,
     speed |-> baseBallSpeed, dx |-> baseBallSpeed, dy |-> baseBallSpeed]
playerInit == [y |-> canvasHeight \div 2 - paddleHeight \div 2, score |-> 0]
computerInit == [y |-> canvasHeight \div 2 - paddleHeight \div 2, score |-> 0]

\* The awaits of toggleMusic() and of the initAudio() it calls.
AwaitPoints == {"initResume", "initAudio", "pause", "resume", "play"}
noToggles == [a \in AwaitPoints |-> 0]

\* The audio collaborator as the script leaves it: nothing created, nothing
\* playing.  The label of the toggle and the slider's value come from the
\* page.
audioOff ==
    /\ isMusicPlaying = FALSE
    /\ audioContext = "null"
    /\ musicToggleText = "page"
    /\ volume = "slider"
    /\ detectChains = 0
    /\ beatCount = 0
    /\ lastBeatTime = 0
    /\ lastUpdateTime = 0
    /\ energyHistory = <<>>
    /\ audioTime = 0
    /\ toggles = noToggles

\* The music playing after a first click that met no failure, once the
\* detector has counted its first beat: the context was created, resumed and
\* read at time 0, play() resolved at time 0, and two callbacks ran, at 0.5 s
\* on a sample of 0 and at 1 s on a sample of 200: each closed a window on no
\* beat, and the second counted the first beat of the next window.
audioBeat ==
    /\ isMusicPlaying = TRUE
    /\ audioContext = "running"
    /\ musicToggleText = "Music On"
    /\ volume = "slider"
    /\ detectChains = 1
    /\ beatCount = 1
    /\ lastBeatTime = 2 * updateWindow
    /\ lastUpdateTime = 2 * updateWindow
    /\ energyHistory = <<0, 200>>
    /\ audioTime = 2 * updateWindow
    /\ toggles = noToggles

\* No click and no detectBPM callback is followed step by step.
noAudioSteps ==
    /\ clicksLeft = 0
    /\ cyclesLeft = 0

Init ==
    /\ ball = ballInit
    /\ player = playerInit
    /\ computer = computerInit
    /\ upPressed = FALSE
    /\ downPressed = FALSE
    /\ currentBPM = defaultBPM
    /\ audioOff
    /\ clicksLeft = MaxClicks
    /\ cyclesLeft = MaxCycles
    /\ framesLeft = MaxFrames
    /\ eventsLeft = MaxEvents
    /\ last = Still("init")

\* ----------------------------------------------------------- actions ----
Keys == {"ArrowUp", "ArrowDown", "Other"}

\* document.addEventListener('keydown', ...)
keydown(k) ==
    /\ eventsLeft > 0
    /\ upPressed' = IF k = "ArrowUp" THEN TRUE ELSE upPressed
    /\ downPressed' = IF k = "ArrowDown" THEN TRUE ELSE downPressed
    /\ eventsLeft' = eventsLeft - 1
    /\ last' = [Still("key") EXCEPT !.key = k]
    /\ UNCHANGED <<ball, player, computer, currentBPM, audioVars, framesLeft>>

\* document.addEventListener('keyup', ...)
keyup(k) ==
    /\ eventsLeft > 0
    /\ upPressed' = IF k = "ArrowUp" THEN FALSE ELSE upPressed
    /\ downPressed' = IF k = "ArrowDown" THEN FALSE ELSE downPressed
    /\ eventsLeft' = eventsLeft - 1
    /\ last' = [Still("key") EXCEPT !.key = k]
    /\ UNCHANGED <<ball, player, computer, currentBPM, audioVars, framesLeft>>

\* Mutant of gameLoop: a score puts both paddles back to the middle.
gameLoopRecentre ==
    /\ framesLeft > 0
    /\ LET py == movePlayer(player.y, upPressed, downPressed)
           cy == moveComputer(computer.y, ball.y)
           bi == integrate(ball)
           bw == wallCollide(bi)
           bp == paddleCollide(bw, py, cy)
           who == scorer(bp)
       IN  /\ \E r1, r2 \in (IF who = "none" THEN {0} ELSE RandomDraws) :
                 ball' = IF who = "none" THEN bp ELSE resetBall(bp, r1, r2)
           /\ player' = [y |-> IF who = "none" THEN py ELSE playerInit.y,
                         score |-> IF who = "player" THEN player.score + 1
                                   ELSE player.score]
           /\ computer' = [y |-> IF who = "none" THEN cy ELSE computerInit.y,
                           score |-> IF who = "computer" THEN computer.score + 1
                                     ELSE computer.score]
           /\ last' = [Still("frame") EXCEPT !.bi = bi, !.bw = bw, !.bp = bp]
    /\ framesLeft' = framesLeft - 1
    /\ UNCHANGED <<upPressed, downPressed, currentBPM, audioVars, eventsLeft>>

\* Mutant of gameLoop: a point is taken from the side that concedes it.
gameLoopScoreSwing ==
    /\ framesLeft > 0
    /\ LET py == movePlayer(player.y, upPressed, downPressed)
           cy == moveComputer(computer.y, ball.y)
           bi == integrate(ball)
           bw == wallCollide(bi)
           bp == paddleCollide(bw, py, cy)
           who == scorer(bp)
       IN  /\ \E r1, r2 \in (IF who = "none" THEN {0} ELSE RandomDraws) :
                 ball' = IF who = "none" THEN bp ELSE resetBall(bp, r1, r2)
           /\ player' = [y |-> py,
                         score |-> IF who = "player" THEN player.score + 1
                                   ELSE IF who = "computer" THEN player.score - 1
                                   ELSE player.score]
           /\ computer' = [y |-> cy,
                           score |-> IF who = "computer" THEN computer.score + 1
                                     ELSE IF who = "player" THEN computer.score - 1
                                     ELSE computer.score]
           /\ last' = [Still("frame") EXCEPT !.bi = bi, !.bw = bw, !.bp = bp]
    /\ framesLeft' = framesLeft - 1
    /\ UNCHANGED <<upPressed, downPressed, currentBPM, audioVars, eventsLeft>>

\* Mutant of gameLoop: moveBall() runs before movePaddles().
gameLoopBallFirst ==
    /\ framesLeft > 0
    /\ LET bi == integrate(ball)
           bw == wallCollide(bi)
           bp == paddleCollide(bw, player.y, computer.y)
           who == scorer(bp)
       IN  /\ \E r1, r2 \in (IF who = "none" THEN {0} ELSE RandomDraws) :
                 /\ ball' = IF who = "none" THEN bp ELSE resetBall(bp, r1, r2)
                 /\ computer' = [y |-> moveComputer(computer.y, ball'.y),
                                 score |-> IF who = "computer" THEN computer.score + 1
                                           ELSE computer.score]
           /\ player' = [y |-> movePlayer(player.y, upPressed, downPressed),
                         score |-> IF who = "player" THEN player.score + 1
                                   ELSE player.score]
           /\ last' = [Still("frame") EXCEPT !.bi = bi, !.bw = bw, !.bp = bp]
    /\ framesLeft' = framesLeft - 1
    /\ UNCHANGED <<upPressed, downPressed, currentBPM, audioVars, eventsLeft>>

\* gameLoop(): movePaddles(), then moveBall() with its resetBall().
gameLoop ==
    /\ framesLeft > 0
    /\ LET py == movePlayer(player.y, upPressed, downPressed)
           cy == moveComputer(computer.y, ball.y)
           bi == integrate(ball)
           bw == wallCollide(bi)
           bp == paddleCollide(bw, py, cy)
           who == scorer(bp)
       IN  /\ \E r1, r2 \in (IF who = "none" THEN {0} ELSE RandomDraws) :
                 ball' = IF who = "none" THEN bp ELSE resetBall(bp, r1, r2)
           /\ player' = [y |-> py,
                         score |-> IF who = "player" THEN player.score + 1
                                   ELSE player.score]
           /\ computer' = [y |-> cy,
                           score |-> IF who = "computer" THEN computer.score + 1
                                     ELSE computer.score]
           /\ last' = [Still("frame") EXCEPT !.bi = bi, !.bw = bw, !.bp = bp]
    /\ framesLeft' = framesLeft - 1
    /\ UNCHANGED <<upPressed, downPressed, currentBPM, audioVars, eventsLeft>>

\* ---------------------------------- the audio handlers, await by await ----
\* toggleMusic() and initAudio() are async: each action below is the code
\* one call runs between two of its awaits, and any handler may run while
\* the call is suspended.  toggles counts the calls suspended at each await.
Energies == {0, 200}
ClockSteps == {1, updateWindow}
Volumes == {"0"}

\* The samples and clock steps a handler can tell apart: one stands for all
\* when the handler does not read them.
SamplesRead(read, E) == IF read THEN E ELSE {0}
ClockRead(read, D) == IF read THEN D ELSE {0}

suspendedAt(T, a) == [T EXCEPT ![a] = @ + 1]
resumedFrom(a) == [toggles EXCEPT ![a] = @ - 1]

\* Mutant of playFailed: the catch only logs the error.
playFailedLogsOnly(T) ==
    /\ toggles' = T
    /\ UNCHANGED <<isMusicPlaying, musicToggleText>>

\* catch (playError): isMusicPlaying = false and the label goes to Music Off.
playFailed(T) ==
    /\ isMusicPlaying' = FALSE
    /\ musicToggleText' = "Music Off"
    /\ toggles' = T

\* const playPromise = backgroundMusic.play(); if (playPromise !== undefined)
\* await playPromise.  play() returns a promise, which the call awaits, or
\* undefined, and then the call ends there: nothing is awaited and neither
\* the flag nor the label is written.
playCalled(T) ==
    /\ \E promised \in BOOLEAN :
          toggles' = IF promised THEN suspendedAt(T, "play") ELSE T
    /\ UNCHANGED <<isMusicPlaying, musicToggleText>>

\* toggleMusic() from its test of isMusicPlaying to its next await.  With no
\* audio context, audioContext.state throws into the play branch's catch.
toggleBranch(T) ==
    IF isMusicPlaying
    THEN /\ toggles' = suspendedAt(T, "pause")
         /\ UNCHANGED <<isMusicPlaying, musicToggleText>>
    ELSE IF audioContext = "null" THEN playFailed(T)
    ELSE IF audioContext = "suspended"
    THEN /\ toggles' = suspendedAt(T, "resume")
         /\ UNCHANGED <<isMusicPlaying, musicToggleText>>
    ELSE playCalled(T)

\* Mutant of click: the context is published only once initAudio's await
\* has resolved, so a click that arrives before that calls initAudio() too.
clickWhileInitialising ==
    /\ clicksLeft > 0
    /\ clicksLeft' = clicksLeft - 1
    /\ IF audioContext = "null" \/ toggles["initResume"] > 0
       THEN /\ \E made \in {"null", "suspended", "running"} :
                  /\ audioContext' = made
                  /\ toggles' = suspendedAt(toggles, IF made = "null" THEN "initAudio"
                                                     ELSE "initResume")
            /\ UNCHANGED <<isMusicPlaying, musicToggleText>>
       ELSE /\ toggleBranch(toggles)
            /\ UNCHANGED audioContext
    /\ last' = Still("click")
    /\ UNCHANGED <<gameVars, currentBPM, volume, detectorVars, cyclesLeft,
                   framesLeft, eventsLeft>>

\* A click on musicToggle: toggleMusic() up to its first await.  Without an
\* audio context it calls initAudio(), whose constructor throws or leaves a
\* context in either state; with one it goes on to the branch.
click ==
    /\ clicksLeft > 0
    /\ clicksLeft' = clicksLeft - 1
    /\ IF audioContext = "null"
       THEN /\ \E made \in {"null", "suspended", "running"} :
                  /\ audioContext' = made
                  /\ toggles' = suspendedAt(toggles, IF made = "null" THEN "initAudio"
                                                     ELSE "initResume")
            /\ UNCHANGED <<isMusicPlaying, musicToggleText>>
       ELSE /\ toggleBranch(toggles)
            /\ UNCHANGED audioContext
    /\ last' = Still("click")
    /\ UNCHANGED <<gameVars, currentBPM, volume, detectorVars, cyclesLeft,
                   framesLeft, eventsLeft>>

\* initAudio() after await audioContext.resume().  Resolved, it builds the
\* analyser, reads the clock into lastUpdateTime and makes the first
\* detectBPM() call, which starts a callback chain; rejected, it only logs.
initResumed(ok) ==
    /\ toggles["initResume"] > 0
    /\ toggles' = suspendedAt(resumedFrom("initResume"), "initAudio")
    /\ IF ok
       THEN \E e \in SamplesRead(isMusicPlaying, Energies) :
            LET S == [detectorNow EXCEPT !.lastUpdateTime = audioTime,
                                         !.energyHistory = <<>>]
                D == detectCycle(S, isMusicPlaying, e, 0)
            IN  /\ audioContext' = "running"
                /\ detectChains' = detectChains + 1
                /\ ball' = D.ball
                /\ currentBPM' = D.currentBPM
                /\ beatCount' = D.beatCount
                /\ lastBeatTime' = D.lastBeatTime
                /\ lastUpdateTime' = D.lastUpdateTime
                /\ energyHistory' = D.energyHistory
                /\ audioTime' = D.audioTime
       ELSE UNCHANGED <<audioContext, detectorVars, ball, currentBPM>>
    /\ last' = [Still("initResumed") EXCEPT !.ok = ok]
    /\ UNCHANGED <<player, computer, upPressed, downPressed, isMusicPlaying,
                   musicToggleText, volume, clicksLeft, cyclesLeft, framesLeft,
                   eventsLeft>>

\* toggleMusic() after await initAudio().
afterInitAudio ==
    /\ toggles["initAudio"] > 0
    /\ toggleBranch(resumedFrom("initAudio"))
    /\ last' = Still("afterInitAudio")
    /\ UNCHANGED <<gameVars, currentBPM, audioContext, volume, detectorVars,
                   clicksLeft, cyclesLeft, framesLeft, eventsLeft>>

\* Mutant of pauseResolved: switching the music off also puts the tempo back
\* to its default and rescales the ball.
pauseResolvedResetsTempo ==
    /\ toggles["pause"] > 0
    /\ toggles' = resumedFrom("pause")
    /\ musicToggleText' = "Music Off"
    /\ isMusicPlaying' = FALSE
    /\ currentBPM' = defaultBPM
    /\ ball' = updateBallSpeed(ball, defaultBPM).ball
    /\ last' = Still("pauseResolved")
    /\ UNCHANGED <<player, computer, upPressed, downPressed, audioContext, volume,
                   detectorVars, clicksLeft, cyclesLeft, framesLeft, eventsLeft>>

\* toggleMusic() after await backgroundMusic.pause().
pauseResolved ==
    /\ toggles["pause"] > 0
    /\ toggles' = resumedFrom("pause")
    /\ musicToggleText' = "Music Off"
    /\ isMusicPlaying' = FALSE
    /\ last' = Still("pauseResolved")
    /\ UNCHANGED <<gameVars, currentBPM, audioContext, volume, detectorVars,
                   clicksLeft, cyclesLeft, framesLeft, eventsLeft>>

\* toggleMusic() after await audioContext.resume(): play() is called, or
\* the rejection is caught.
resumeResolved(ok) ==
    /\ toggles["resume"] > 0
    /\ IF ok
       THEN /\ audioContext' = "running"
            /\ playCalled(resumedFrom("resume"))
       ELSE /\ playFailed(resumedFrom("resume"))
            /\ UNCHANGED audioContext
    /\ last' = [Still("resumeResolved") EXCEPT !.ok = ok]
    /\ UNCHANGED <<gameVars, currentBPM, volume, detectorVars, clicksLeft,
                   cyclesLeft, framesLeft, eventsLeft>>

\* toggleMusic() after await playPromise: the music is on and the beat count
\* restarts at the clock's reading (the clock as it was last read, or a
\* window later), or the rejection is caught.
playResolved(ok) ==
    /\ toggles["play"] > 0
    /\ IF ok
       THEN /\ toggles' = resumedFrom("play")
            /\ musicToggleText' = "Music On"
            /\ isMusicPlaying' = TRUE
            /\ beatCount' = 0
            /\ \E dt \in {0, updateWindow} :
                  /\ lastBeatTime' = audioTime + dt
                  /\ audioTime' = audioTime + dt
       ELSE /\ playFailed(resumedFrom("play"))
            /\ UNCHANGED <<beatCount, lastBeatTime, audioTime>>
    /\ last' = [Still("playResolved") EXCEPT !.ok = ok]
    /\ UNCHANGED <<gameVars, currentBPM, audioContext, volume, detectChains,
                   lastUpdateTime, energyHistory, clicksLeft, cyclesLeft,
                   framesLeft, eventsLeft>>

\* volumeSlider 'input' listener; a move of the slider is one of the clicks.
volumeInput(v) ==
    /\ clicksLeft > 0
    /\ clicksLeft' = clicksLeft - 1
    /\ volume' = v
    /\ last' = Still("volume")
    /\ UNCHANGED <<gameVars, currentBPM, isMusicPlaying, audioContext,
                   musicToggleText, detectorVars, toggles, cyclesLeft,
                   framesLeft, eventsLeft>>

\* One callback of a detectBPM chain, which re-schedules itself; e is the
\* bass energy it reads, one of E, and dt the time since the clock was last
\* read, one of T.
detectBPM(E, T) ==
    /\ detectChains > 0
    /\ cyclesLeft > 0
    /\ cyclesLeft' = IF isMusicPlaying THEN cyclesLeft - 1 ELSE cyclesLeft
    /\ \E e \in SamplesRead(isMusicPlaying, E), dt \in ClockRead(isMusicPlaying, T) :
       LET D == detectCycle(detectorNow, isMusicPlaying, e, dt)
       IN  /\ ball' = D.ball
           /\ currentBPM' = D.currentBPM
           /\ beatCount' = D.beatCount
           /\ lastBeatTime' = D.lastBeatTime
           /\ lastUpdateTime' = D.lastUpdateTime
           /\ energyHistory' = D.energyHistory
           /\ audioTime' = D.audioTime
           /\ last' = [Still("detect") EXCEPT !.pub = D.published,
                                               !.written = D.written]
    /\ UNCHANGED <<player, computer, upPressed, downPressed, isMusicPlaying,
                   audioContext, musicToggleText, volume, detectChains, toggles,
                   clicksLeft, framesLeft, eventsLeft>>

\* Clock steps between detectBPM callbacks beside a running game: 0.5 s,
\* which closes a measurement window on a fast estimate, and 2.5 s, which
\* closes it on a slow one.
TempoSteps == {updateWindow, 5 * updateWindow}

\* The click on musicToggle arriving in the last ClickFrames frames of the
\* explored execution.
clickLate ==
    /\ framesLeft <= ClickFrames
    /\ click

\* The key events arriving in the first KeyLead frames of the explored
\* execution.
keydownEarly(k) ==
    /\ framesLeft >= MaxFrames - KeyLead
    /\ keydown(k)
keyupEarly(k) ==
    /\ framesLeft >= MaxFrames - KeyLead
    /\ keyup(k)

Next ==
    \/ \E k \in Keys : keydownEarly(k)
    \/ \E k \in Keys : keyupEarly(k)
    \/ gameLoop
    \/ clickLate
    \/ \E ok \in BOOLEAN : initResumed(ok)
    \/ afterInitAudio
    \/ pauseResolved
    \/ \E ok \in BOOLEAN : resumeResolved(ok)
    \/ \E ok \in BOOLEAN : playResolved(ok)
    \/ detectBPM(Energies, TempoSteps)

Spec == Init /\ [][Next]_vars

\* ------------------------------------------------ a match left to itself ----
\* MatchSpec plays the match from its start with no key pressed, long enough
\* for the first point to be scored and the ball to be served again; in its
\* last frames the music is switched on and the detector runs.
MatchInit ==
    /\ ball = ballInit
    /\ player = playerInit
    /\ computer = computerInit
    /\ upPressed = FALSE
    /\ downPressed = FALSE
    /\ currentBPM = defaultBPM
    /\ audioOff
    /\ clicksLeft = MaxClicks
    /\ cyclesLeft = MaxCycles
    /\ framesLeft = MatchFrames
    /\ eventsLeft = 0
    /\ last = Still("init")

MatchNext ==
    \/ gameLoop
    \/ clickLate
    \/ \E ok \in BOOLEAN : initResumed(ok)
    \/ afterInitAudio
    \/ pauseResolved
    \/ \E ok \in BOOLEAN : resumeResolved(ok)
    \/ \E ok \in BOOLEAN : playResolved(ok)
    \/ detectBPM(Energies, TempoSteps)

MatchSpec == MatchInit /\ [][MatchNext]_vars

\* --------------------------------------------- a match with no events ----
\* IdleSpec runs the game loop from the start of the match with no key event
\* and no tempo update, past the first point and the serve that follows it,
\* until a second point can be scored.  The music may be switched on in the
\* last frames, but it is silent: every sample the detector reads is 0, so it
\* counts no beat and publishes no estimate.
IdleInit ==
    /\ ball = ballInit
    /\ player = playerInit
    /\ computer = computerInit
    /\ upPressed = FALSE
    /\ downPressed = FALSE
    /\ currentBPM = defaultBPM
    /\ audioOff
    /\ clicksLeft = GameClicks
    /\ cyclesLeft = MaxCycles
    /\ framesLeft = IdleFrames
    /\ eventsLeft = 0
    /\ last = Still("init")

IdleNext ==
    \/ gameLoop
    \/ clickLate
    \/ \E ok \in BOOLEAN : initResumed(ok)
    \/ afterInitAudio
    \/ \E ok \in BOOLEAN : resumeResolved(ok)
    \/ \E ok \in BOOLEAN : playResolved(ok)
    \/ detectBPM({0}, TempoSteps)

IdleSpec == IdleInit /\ [][IdleNext]_vars

\* ---------------------------------------------- the human at the keys ----
\* KeySpec plays the start of the match with key events alone (no tempo
\* update): long enough for a held key to take the human paddle from its
\* start to the end of its travel, with a second event left to press or
\* release a key there.
KeyInit ==
    /\ ball = ballInit
    /\ player = playerInit
    /\ computer = computerInit
    /\ upPressed = FALSE
    /\ downPressed = FALSE
    /\ currentBPM = defaultBPM
    /\ audioOff
    /\ noAudioSteps
    /\ framesLeft = KeyFrames
    /\ eventsLeft = KeyEvents
    /\ last = Still("init")

KeyNext ==
    \/ \E k \in Keys : keydown(k)
    \/ \E k \in Keys : keyup(k)
    \/ gameLoop

KeySpec == KeyInit /\ [][KeyNext]_vars

\* --------------------------------------- the first return to the human ----
\* ReturnSpec plays the match from its start to where the ball, returned once
\* by the computer paddle, comes back to the human paddle for the first time.
\* No key is touched during the first ReturnStart frames; in the ReturnFrames
\* frames that follow, the keys act freely.
ReturnStart == 220
ReturnFrames == 13
ReturnEvents == 3

ReturnInit ==
    /\ ball = ballInit
    /\ player = playerInit
    /\ computer = computerInit
    /\ upPressed = FALSE
    /\ downPressed = FALSE
    /\ currentBPM = defaultBPM
    /\ audioOff
    /\ noAudioSteps
    /\ framesLeft = ReturnStart + ReturnFrames
    /\ eventsLeft = ReturnEvents
    /\ last = Still("init")

\* The key events of the last ReturnFrames frames.
keydownLate(k) == framesLeft <= ReturnFrames /\ keydown(k)
keyupLate(k) == framesLeft <= ReturnFrames /\ keyup(k)

ReturnNext ==
    \/ \E k \in Keys : keydownLate(k)
    \/ \E k \in Keys : keyupLate(k)
    \/ gameLoop

ReturnSpec == ReturnInit /\ [][ReturnNext]_vars

\* ------------------------------------------------ the frame loop kept running ----
\* LiveSpec is the match left to itself, as MatchSpec, with the one thing
\* the browser guarantees: gameLoop re-schedules itself with
\* requestAnimationFrame at the end of every call, unconditionally, so while
\* frames are left the next one is run.  The music was switched on as the
\* match began and the detector has counted its first beat, three frames
\* into the match (the ball is in free flight, inside the computer's dead
\* zone, and no paddle has moved); its callbacks
\* run beside the frames, at any frame, and the first one that analyses a
\* sample comes 2.5 s after the beat: it publishes the slowest tempo the
\* detector can write, which gives the ball its longest crossing.
SlowSteps == {5 * updateWindow}
\* Frames run from the first beat on.
LiveFrames == 400
\* Frames that have run when the first beat is counted at the earliest: the
\* frame gameLoop() runs as the script is loaded, before any click, and one
\* in each of the two animation frames whose detectBPM callbacks follow it.
FirstBeatFrames == 1 + 2
\* Frames in which the slowest ball the detector can set crosses the court.
RallyFrames == 254

LiveInit ==
    /\ ball = [ballInit EXCEPT !.x = @ + FirstBeatFrames * ballInit.dx,
                               !.y = @ + FirstBeatFrames * ballInit.dy]
    /\ player = playerInit
    /\ computer = computerInit
    /\ upPressed = FALSE
    /\ downPressed = FALSE
    /\ currentBPM = defaultBPM
    /\ audioBeat
    /\ clicksLeft = 0
    /\ cyclesLeft = GridCycles
    /\ framesLeft = LiveFrames
    /\ eventsLeft = 0
    /\ last = Still("init")

LiveNext ==
    \/ gameLoop
    \/ detectBPM({0}, SlowSteps)

LiveSpec == LiveInit /\ [][LiveNext]_vars /\ WF_vars(gameLoop)

\* ------------------------------------------- the frame on a grid of inputs ----
\* FrameSpec runs gameLoop (and detectBPM callbacks around it, which publish
\* a tempo when they close a measurement window) from a grid of game
\* states instead of from the start of a match, so that every branch of
\* moveBall is met at its edges.  The grid holds states that satisfy what the
\* handlers maintain: speed is a value of the mapper, |dx| = speed, dy is a
\* value resetBall or updateBallSpeed can leave (either sign, since walls
\* flip it), a ball with dy = 0 is still on the centre line where resetBall
\* put it, a ball that has not been rescaled since its serve (|dy| < speed)
\* is beyond a wall only if it crossed it in the frame before and was turned
\* back, the ball ended the frame before inside the side edges, the human
\* paddle is on the 7-pixel lattice through its start and the computer paddle
\* on the 5-pixel one.  The grid is a superset of the states of that shape a
\* match reaches: what holds of every frame from the grid holds of theirs.
GridBPMs == {detectMinBPM, defaultBPM, detectMaxBPM}

\* dy as resetBall leaves it at speed s, and with either sign after reflection.
ResetDys(s) == {(s * (2 * r - RandomDenom)) \div RandomDenom : r \in RandomDraws}
GridDys(s) == LET D == ResetDys(s) \cup {s} IN D \cup {-d : d \in D}

\* Where the integration step puts the ball (pixels): either side of every
\* threshold moveBall compares x and y with, and the thresholds themselves.
GridIX == {Px(5), Px(10), Px(15), Px(20), Px(25), Px(400),
           Px(775), Px(780), Px(785), Px(790), Px(795)}
GridIY == {Px(5), Px(10), Px(15), Px(250), Px(300), Px(350),
           Px(585), Px(590), Px(595)}
GridPlayerY == {Px(-2), Px(5), Px(250), Px(495), Px(502)}
GridComputerY == {Px(-10), Px(250), Px(505)}

\* b may end a frame: inside the walls, or beyond one at full |dy| (a tempo
\* update can leave it there), or just turned back from the overshoot.
mayEndFrame(b) ==
    \/ ~(b.y + radius > canvasHeight \/ b.y - radius < 0)
    \/ b.dy = b.speed \/ b.dy = -b.speed
    \/ /\ b.y + b.dy + radius <= canvasHeight
       /\ b.y + b.dy - radius >= 0

\* The balls of the grid at the speed of bpm whose integration step ends on
\* IX x IY.
GridBalls(bpm, IX, IY) ==
    LET s == speedFor(bpm)
        B == UNION {
               {[x |-> ix - dx, y |-> iy - dy, speed |-> s, dx |-> dx, dy |-> dy] :
                   ix \in {i \in IX : i - dx >= radius /\ i - dx <= canvasWidth - radius},
                   iy \in {i \in IY : dy = 0 => i = canvasHeight \div 2}}
               : dx \in {s, -s}, dy \in GridDys(s)}
    IN  {b \in B : mayEndFrame(b)}

\* Every ball of the grid, the paddles where the match starts them, no key held.
FrameInitBall ==
    /\ currentBPM \in GridBPMs
    /\ ball \in GridBalls(currentBPM, GridIX, GridIY)
    /\ player = playerInit
    /\ computer \in {[y |-> y, score |-> 0] : y \in {Px(250), Px(505)}}
    /\ upPressed = FALSE
    /\ downPressed = FALSE

\* Every paddle position and key state of the grid, the ball at base speed
\* near a paddle or a wall, or past a side edge.
FrameInitPaddles ==
    /\ currentBPM = defaultBPM
    /\ ball \in GridBalls(currentBPM, {Px(5), Px(15), Px(400), Px(785), Px(795)},
                          {Px(5), Px(300), Px(595)})
    /\ player \in {[y |-> y, score |-> 0] : y \in GridPlayerY}
    /\ computer \in {[y |-> y, score |-> 0] : y \in GridComputerY}
    /\ upPressed \in BOOLEAN
    /\ downPressed \in BOOLEAN

\* The ball at, and 5 pixels either side of, both edges of the computer
\* paddle's dead zone, for every computer position of the grid.
FrameInitDeadZone ==
    /\ currentBPM = defaultBPM
    /\ computer \in {[y |-> y, score |-> 0] : y \in GridComputerY}
    /\ \E off \in {-deadZone - Px(5), -deadZone, -deadZone + Px(5),
                   deadZone - Px(5), deadZone, deadZone + Px(5)} :
       \E dx, dy \in {baseBallSpeed, -baseBallSpeed} :
          /\ ball = [ballInit EXCEPT !.y = computer.y + paddleHeight \div 2 + off,
                                     !.dx = dx, !.dy = dy]
          /\ mayEndFrame(ball)
    /\ player = playerInit
    /\ upPressed = FALSE
    /\ downPressed = FALSE

FrameInit ==
    /\ FrameInitBall \/ FrameInitPaddles \/ FrameInitDeadZone
    /\ audioBeat
    /\ clicksLeft = 0
    /\ cyclesLeft = GridCycles
    /\ framesLeft = GridFrames
    /\ eventsLeft = 0
    /\ last = Still("init")

FrameNext ==
    \/ gameLoop
    \/ detectBPM({200}, TempoSteps)

FrameSpec == FrameInit /\ [][FrameNext]_vars

\* --------------------------------------------- the mapper on its inputs ----
\* MapSpec calls updateBallSpeed() on every pair of a ball velocity and a
\* value of currentBPM drawn from the sets below: the values the guard and
\* the two clamps of the multiplier tell apart, and ones around them.
\* Every whole tempo of the documented range 40..200 is among them.
MapBPMs == {-1, 0, 1, 39} \cup (minBPM .. detectMaxBPM)
              \cup {201, 323, 324, 400, 1000, absentBPM}

MapInit ==
    /\ currentBPM \in MapBPMs
    /\ \E bpm \in GridBPMs :
          ball \in {[ballInit EXCEPT !.speed = speedFor(bpm), !.dx = dx, !.dy = dy] :
                       dx \in {speedFor(bpm), -speedFor(bpm)},
                       dy \in GridDys(speedFor(bpm))}
    /\ player = playerInit
    /\ computer = computerInit
    /\ upPressed = FALSE
    /\ downPressed = FALSE
    /\ audioOff
    /\ noAudioSteps
    /\ framesLeft = 0
    /\ eventsLeft = MapCalls
    /\ last = Still("init")

\* updateBallSpeed() called with currentBPM as it stands.
callUpdateBallSpeed ==
    /\ eventsLeft > 0
    /\ LET u == updateBallSpeed(ball, currentBPM)
       IN  /\ ball' = u.ball
           /\ currentBPM' = u.currentBPM
    /\ eventsLeft' = eventsLeft - 1
    /\ last' = [Still("update") EXCEPT !.bpm0 = currentBPM]
    /\ UNCHANGED <<player, computer, upPressed, downPressed, audioVars, framesLeft>>

MapNext == callUpdateBallSpeed

MapSpec == MapInit /\ [][MapNext]_vars

\* ------------------------------------- the mapper of the [0.25, 1.0] file ----
\* One of the whole-file variants of the game carries an updateBallSpeed()
\* with the bounds 0.25 and 1.0; the rest of the function is the same text.

\* Mutant of variantSpeedMultiplier: the power curve is clamped as it is,
\* without the factor 0.5.
variantSpeedMultiplierUnhalved(bpm) == Max(PowUnit \div 4, Min(PowUnit, Pow07(bpm)))

\* Math.max(0.25, Math.min(1.0, Math.pow(normalizedBPM, 0.7) * 0.5)), in
\* 1/PowUnit.
variantSpeedMultiplier(bpm) == Max(PowUnit \div 4, Min(PowUnit, Pow07(bpm) \div 2))

\* baseBallSpeed * speedMultiplier
variantSpeedFor(bpm) == timesBase(variantSpeedMultiplier(bpm))

\* updateBallSpeed() of the variant: the same guard and the same rebuilding
\* of the velocity from its signs.
variantUpdateBallSpeed(b, bpm) ==
    [ball |-> withSpeed(b, variantSpeedFor(validBPM(bpm))), currentBPM |-> validBPM(bpm)]

\* The ball as the variant starts with it (speed baseBallSpeed) or as one of
\* its tempo updates left it.
VariantInit ==
    /\ currentBPM \in MapBPMs
    /\ \E s \in {baseBallSpeed} \cup {variantSpeedFor(bpm) : bpm \in GridBPMs} :
          ball \in {[ballInit EXCEPT !.speed = s, !.dx = dx, !.dy = dy] :
                       dx \in {s, -s}, dy \in GridDys(s)}
    /\ player = playerInit
    /\ computer = computerInit
    /\ upPressed = FALSE
    /\ downPressed = FALSE
    /\ audioOff
    /\ noAudioSteps
    /\ framesLeft = 0
    /\ eventsLeft = MapCalls
    /\ last = Still("init")

\* The variant's updateBallSpeed() called with currentBPM as it stands.
callVariantUpdateBallSpeed ==
    /\ eventsLeft > 0
    /\ LET u == variantUpdateBallSpeed(ball, currentBPM)
       IN  /\ ball' = u.ball
           /\ currentBPM' = u.currentBPM
    /\ eventsLeft' = eventsLeft - 1
    /\ last' = [Still("variantUpdate") EXCEPT !.bpm0 = currentBPM]
    /\ UNCHANGED <<player, computer, upPressed, downPressed, audioVars, framesLeft>>

VariantNext == callVariantUpdateBallSpeed

VariantSpec == VariantInit /\ [][VariantNext]_vars

\* ------------------------------------------- the game beside the audio ----
\* AudioSpec follows the audio handlers step by step from the start of the
\* page: clicks on the toggle with every outcome of their awaits, the
\* detectBPM callbacks on the samples and clock steps above, volume changes,
\* and the game loop running among them.
AudioInit ==
    /\ ball = ballInit
    /\ player = playerInit
    /\ computer = computerInit
    /\ upPressed = FALSE
    /\ downPressed = FALSE
    /\ currentBPM = defaultBPM
    /\ audioOff
    /\ clicksLeft = MaxClicks
    /\ cyclesLeft = MaxCycles
    /\ framesLeft = AudioFrames
    /\ eventsLeft = 0
    /\ last = Still("init")

AudioNext ==
    \/ click
    \/ \E ok \in BOOLEAN : initResumed(ok)
    \/ afterInitAudio
    \/ pauseResolved
    \/ \E ok \in BOOLEAN : resumeResolved(ok)
    \/ \E ok \in BOOLEAN : playResolved(ok)
    \/ \E v \in Volumes : volumeInput(v)
    \/ detectBPM(Energies, ClockSteps)
    \/ gameLoop

AudioSpec == AudioInit /\ [][AudioNext]_vars

\* ============================================================ claims ====
wasFrame == last.op = "frame"
\* The last step was a detectBPM callback that published an estimate: it
\* wrote currentBPM and called updateBallSpeed.
wasTempo == last.op = "detect" /\ last.pub
playerGain == player.score - last.player0.score
computerGain == computer.score - last.computer0.score
beyondWall(b) == b.y + radius > canvasHeight \/ b.y - radius < 0

\* C1: in every reachable state the human paddle is inside the court,
\* 0 <= player.y <= courtHeight - paddleHeight.
C1_PlayerInCourt == 0 <= player.y /\ player.y <= canvasHeight - paddleHeight

\* C2: in every reachable state the rule-controlled paddle is inside the
\* court, 0 <= computer.y <= courtHeight - paddleHeight.
C2_ComputerInCourt == 0 <= computer.y /\ computer.y <= canvasHeight - paddleHeight

\* C3: in every frame exactly one of {human scores, opponent scores, no
\* score} holds: player.score grows by 1 (computer.score unchanged) iff after
\* integration ball.x + radius > width; computer.score grows by 1
\* (player.score unchanged) iff ball.x - radius < 0 and the first test is
\* false; otherwise neither score changes.
C3_ScoringExclusive ==
    wasFrame =>
        LET right == last.bi.x + radius > canvasWidth
            left == last.bi.x - radius < 0
        IN  /\ playerGain \in {0, 1}
            /\ computerGain \in {0, 1}
            /\ playerGain + computerGain <= 1
            /\ playerGain = 1 <=> right
            /\ computerGain = 1 <=> (left /\ ~right)
C3_Witness == wasFrame /\ playerGain = 1 /\ computerGain = 0

\* C4: at the end of every frame in which a score occurred the ball is at the
\* court centre, |dx| is the current ball.speed (the speed the frame found,
\* not the base speed) and |dy| <= ball.speed.
C4_ResetOnScore ==
    wasFrame /\ playerGain + computerGain > 0 =>
        /\ ball.x = canvasWidth \div 2
        /\ ball.y = canvasHeight \div 2
        /\ ball.speed = last.ball0.speed
        /\ Abs(ball.dx) = ball.speed
        /\ Abs(ball.dy) <= ball.speed
C4_Witness ==
    /\ wasFrame
    /\ computerGain = 1
    /\ ball.speed # baseBallSpeed
    /\ Abs(ball.dx) = ball.speed
    /\ Abs(ball.dy) < ball.speed

\* C5: in a frame where after integration the ball travels left and
\* ball.x - radius < paddleWidth, dx is negated (same magnitude) iff
\* player.y < ball.y < player.y + 100, strictly; symmetrically on the right
\* with the computer paddle.  A centre on either end of the band, or outside
\* it, is not reflected.
C5_PaddleHitTest ==
    wasFrame =>
        LET b == last.bw
            a == last.bp
        IN  /\ (b.dx < 0 /\ b.x - radius < paddleWidth) =>
                   IF player.y < b.y /\ b.y < player.y + paddleHeight
                   THEN a.dx = -b.dx
                   ELSE a.dx = b.dx
            /\ (b.dx > 0 /\ b.x + radius > canvasWidth - paddleWidth) =>
                   IF computer.y < b.y /\ b.y < computer.y + paddleHeight
                   THEN a.dx = -b.dx
                   ELSE a.dx = b.dx
C5_Witness ==
    /\ wasFrame
    /\ last.bw.dx < 0
    /\ last.bw.x - radius < paddleWidth
    /\ last.bw.y = player.y
    /\ last.bp.dx = last.bw.dx

\* C6: in every frame dy changes sign in the reflection step iff after
\* integration ball.y + radius > height or ball.y - radius < 0, and |dy| is
\* the same before and after that step.
C6_WallReflection ==
    wasFrame =>
        /\ beyondWall(last.bi) <=> MathSign(last.bw.dy) # MathSign(last.bi.dy)
        /\ Abs(last.bw.dy) = Abs(last.bi.dy)
C6_Witness ==
    /\ wasFrame
    /\ last.bi.y - radius < 0
    /\ last.bi.dy < 0
    /\ last.bw.dy = -last.bi.dy

\* C7: whenever a frame ends with the ball beyond a horizontal wall, the
\* following frame ends with the ball back inside the vertical bounds
\* (tempo updates may fall between the two frames).
C7_OvershootSelfCorrects == wasFrame /\ beyondWall(last.ball0) => ~beyondWall(ball)

\* C8: in every frame the position after the integration step is the position
\* at frame start plus the velocity held at frame start; a flip decided in
\* the frame leaves that position alone and only turns the velocity.
C8_IntegrationFirst ==
    wasFrame =>
        /\ last.bi.x = last.ball0.x + last.ball0.dx
        /\ last.bi.y = last.ball0.y + last.ball0.dy
        /\ playerGain + computerGain = 0 =>
               /\ ball.x = last.ball0.x + last.ball0.dx
               /\ ball.y = last.ball0.y + last.ball0.dy
\* The frame that first makes y + 10 > 600 from the start of the match.
C8_Witness ==
    /\ wasFrame
    /\ last.ball0.y = Px(590)
    /\ last.ball0.dy = Px(5)
    /\ ball.y = Px(595)
    /\ ball.dy = -Px(5)

\* C9: the ratio dy : dx of the ball's velocity is the same immediately before
\* and immediately after updateBallSpeed.
C9_AnglePreserved ==
    wasTempo => ball.dy * last.ball0.dx = last.ball0.dy * ball.dx

\* C10: updateBallSpeed leaves sign(ball.dx) and sign(ball.dy) unchanged, for
\* every ball velocity and every value of currentBPM.
C10_SignPreserved ==
    last.op = "update" =>
        /\ MathSign(ball.dx) = MathSign(last.ball0.dx)
        /\ MathSign(ball.dy) = MathSign(last.ball0.dy)
C10_Witness ==
    /\ last.op = "update"
    /\ last.ball0.dx < 0
    /\ last.ball0.dy = 0
    /\ ball.dx < 0
    /\ ball.dy = 0
    /\ ball.speed # last.ball0.speed

\* ---- mapper claims, under MapSpec ----
wasUpdate == last.op = "update"
\* The call before this one was an updateBallSpeed() call as well.
secondUpdate == wasUpdate /\ eventsLeft < MapCalls - 1
\* What updateBallSpeed() leaves when it is handed the default tempo.
atDefault(b) == updateBallSpeed(b, defaultBPM)
\* The tempo the call started from is a number the guard replaces.
lowBPM(bpm) == bpm = 0 \/ (bpm # absentBPM /\ bpm < minBPM)

\* C11: a second updateBallSpeed() call in a row, with currentBPM as the
\* first call left it, changes neither ball.speed, ball.dx, ball.dy nor
\* currentBPM.
C11_Idempotent ==
    secondUpdate => /\ ball = last.ball0
                    /\ currentBPM = last.bpm0
\* A second call has run on a ball whose first call changed the velocity.
C11_Witness ==
    /\ secondUpdate
    /\ ball.speed # baseBallSpeed
    /\ Abs(ball.dy) = ball.speed

\* C12: started from a tempo that is absent, zero, negative or below 40,
\* updateBallSpeed() leaves the speed, dx and dy it leaves for 120, and
\* leaves currentBPM at 120.
C12_InvalidLowIsDefault ==
    wasUpdate /\ (last.bpm0 = absentBPM \/ lowBPM(last.bpm0))
        => /\ ball = atDefault(last.ball0).ball
           /\ currentBPM = defaultBPM
\* The call ran on an absent tempo and on a ball that was not at base speed.
C12_Witness ==
    /\ wasUpdate
    /\ last.bpm0 = absentBPM
    /\ last.ball0.speed # baseBallSpeed
    /\ ball.speed = baseBallSpeed

\* C13 as stated: started from a tempo above 200, updateBallSpeed() leaves
\* the speed it leaves for 120.
C13_AboveRangeIsDefault ==
    wasUpdate /\ last.bpm0 # absentBPM /\ last.bpm0 > detectMaxBPM
        => ball.speed = atDefault(last.ball0).ball.speed
\* C13 amended: only a tempo that is absent, zero or below 40 is replaced by
\* 120. A tempo above 200 is kept as currentBPM and mapped like any other:
\* the speed is baseBallSpeed times its tempo raised to 0.7, at most twice
\* baseBallSpeed, and above the speed for 120.
C13_AboveRangeIsKept ==
    wasUpdate /\ last.bpm0 # absentBPM /\ last.bpm0 > detectMaxBPM
        => /\ currentBPM = last.bpm0
           /\ ball.speed = Min(2 * baseBallSpeed, timesBase(Pow07(last.bpm0)))
           /\ ball.speed > atDefault(last.ball0).ball.speed
\* The call ran on a tempo above 200 that the upper clamp does not reach.
C13_Witness ==
    /\ wasUpdate
    /\ last.bpm0 = detectMaxBPM + 1
    /\ ball.speed < 2 * baseBallSpeed

\* C14: started from currentBPM = 120, updateBallSpeed() leaves ball.speed
\* equal to baseBallSpeed, whatever the ball was.
C14_NeutralTempo ==
    wasUpdate /\ last.bpm0 = defaultBPM => ball.speed = baseBallSpeed
\* The call ran at 120 on a ball that had another speed.
C14_Witness ==
    /\ wasUpdate
    /\ last.bpm0 = defaultBPM
    /\ last.ball0.speed # baseBallSpeed

\* C15: over the tempos 40..200 the speed never falls as the tempo rises:
\* the speed a call leaves is at least the speed of every lower tempo of
\* the range and at most the speed of every higher one.
C15_Monotone ==
    wasUpdate /\ last.bpm0 \in minBPM .. detectMaxBPM
        => \A other \in minBPM .. detectMaxBPM :
              /\ other <= last.bpm0 => speedFor(other) <= ball.speed
              /\ other >= last.bpm0 => speedFor(other) >= ball.speed
\* The call ran inside the range, strictly between slower and faster tempos.
C15_Witness ==
    /\ wasUpdate
    /\ last.bpm0 = 90
    /\ speedFor(minBPM) < ball.speed
    /\ ball.speed < speedFor(detectMaxBPM)

\* ---- paddle controllers ----
\* C16: a frame that runs with upPressed and downPressed both true leaves
\* player.y as it found it.
C16_BothKeysNetZero ==
    wasFrame /\ upPressed /\ downPressed => player.y = last.player0.y

\* C17: in every frame, with the centre of the computer paddle and ball.y
\* as the frame found them, computer.y rises by 5 exactly when the centre is
\* less than ball.y - 35, falls by 5 exactly when the centre is greater than
\* ball.y + 35, and is unchanged exactly when the centre is within 35 of
\* ball.y.
C17_DeadZone ==
    wasFrame =>
        LET c0 == last.computer0.y
            centre == c0 + paddleHeight \div 2
            by == last.ball0.y
        IN  /\ computer.y = c0 + computerSpeed <=> centre < by - deadZone
            /\ computer.y = c0 - computerSpeed <=> centre > by + deadZone
            /\ computer.y = c0 <=> (centre >= by - deadZone /\ centre <= by + deadZone)
\* A frame found the ball exactly on an edge of the dead zone.
C17_Witness ==
    /\ wasFrame
    /\ last.computer0.y + paddleHeight \div 2 = last.ball0.y - deadZone
    /\ computer.y = last.computer0.y

\* ---- scoring over a match ----
\* C18: the first point decides the match: the two scores never add up to
\* more than 1.
C18_FirstScoreWins == player.score + computer.score <= 1

\* ---- the audio collaborator, under AudioSpec ----
\* The handlers of the music controls: toggleMusic() with the initAudio() it
\* calls, in every segment between their awaits, and the volume slider.
musicControlOps == {"click", "initResumed", "afterInitAudio", "pauseResolved",
                    "resumeResolved", "playResolved", "volume"}
gameUntouched ==
    /\ ball = last.ball0
    /\ player = last.player0
    /\ computer = last.computer0
    /\ upPressed = last.up0
    /\ downPressed = last.down0

\* C19: no handler of the music controls (toggleMusic, initAudio whether it
\* succeeds or throws, play resolved or rejected, a volume change) changes
\* the ball, the paddles, the key flags or the scores, and the game loop can
\* run a frame in every state, whatever audioContext and isMusicPlaying are.
C19_GameIndependentOfAudio ==
    /\ last.op \in musicControlOps => gameUntouched
    /\ framesLeft > 0 => ENABLED gameLoop
\* The music was switched off after a frame had run and after the detector
\* had rescaled the ball.
C19_Witness ==
    /\ last.op = "pauseResolved"
    /\ ball.speed # baseBallSpeed
    /\ framesLeft < AudioFrames

\* C20: a detectBPM callback that starts while isMusicPlaying is false, be it
\* one of a chain or the first call initAudio makes, changes neither
\* currentBPM, beatCount, the ball nor the times it keeps; a callback of a
\* chain leaves the energy history and the number of chains as they were:
\* it only re-schedules itself.
C20_PausedPollingInert ==
    /\ last.op = "detect" /\ ~last.audio0.isMusicPlaying
           => /\ currentBPM = last.bpm0
              /\ ball = last.ball0
              /\ beatCount = last.audio0.beatCount
              /\ energyHistory = last.audio0.energyHistory
              /\ lastBeatTime = last.audio0.lastBeatTime
              /\ lastUpdateTime = last.audio0.lastUpdateTime
              /\ detectChains = last.audio0.detectChains
    /\ last.op = "initResumed" /\ ~last.audio0.isMusicPlaying
           => /\ currentBPM = last.bpm0
              /\ ball = last.ball0
              /\ beatCount = last.audio0.beatCount
              /\ lastBeatTime = last.audio0.lastBeatTime
              /\ energyHistory = <<>>
\* A callback ran with the music paused after the detector had collected
\* samples and counted a beat.
C20_Witness ==
    /\ last.op = "detect"
    /\ ~last.audio0.isMusicPlaying
    /\ energyHistory # <<>>
    /\ beatCount > 0

\* ---- tempo and speed over an execution ----

\* C21: when a tempo update ends, ball.speed is baseBallSpeed times the
\* clamped 0.7th power of the tempo just written, whatever currentBPM and
\* ball.speed were before and whether or not a frame ran in between.
C21_LastWriteWins ==
    wasTempo =>
        /\ currentBPM = last.written
        /\ ball.speed = timesBase(Max(minMultiplier, Min(maxMultiplier, Pow07(last.written))))
\* A tempo update wrote a tempo other than the one before it, after a frame,
\* on a ball that had another speed.
C21_Witness ==
    /\ wasTempo
    /\ framesLeft < GridFrames
    /\ last.ball0.speed # ball.speed
    /\ last.ball0.speed # baseBallSpeed
    /\ currentBPM # defaultBPM

\* C22: as long as no tempo update has run (IdleSpec has none), whatever the
\* number of points scored and balls served and whether or not the music
\* plays, currentBPM is 120 and ball.speed is baseBallSpeed.
C22_SafeDefault ==
    /\ currentBPM = defaultBPM
    /\ ball.speed = baseBallSpeed
\* A point has been scored and the ball served again, with the music on.
C22_Witness ==
    /\ wasFrame
    /\ player.score + computer.score >= 1
    /\ ball.x # canvasWidth \div 2
    /\ isMusicPlaying

\* ---- the paddle step of a frame, under FrameSpec ----
\* The ball overlaps a paddle's face and band, the paddles where the frame
\* put them; b is the ball as the wall step left it.
overlapsLeft(b) ==
    b.x - radius < paddleWidth /\ b.y > player.y /\ b.y < player.y + paddleHeight
overlapsRight(b) ==
    /\ b.x + radius > canvasWidth - paddleWidth
    /\ b.y > computer.y /\ b.y < computer.y + paddleHeight
paddleFlipped == last.bp.dx # last.bw.dx

\* C23: in every frame the paddle step negates dx at most once, and only
\* for the paddle the ball travels toward: a ball moving right is reflected
\* only when it overlaps the right paddle, a ball moving left only when it
\* overlaps the left one, whatever its overlap with the other paddle.
C23_DirectionGate ==
    wasFrame =>
        /\ last.bp.dx = last.bw.dx \/ last.bp.dx = -last.bw.dx
        /\ paddleFlipped /\ last.bw.dx > 0 => overlapsRight(last.bw)
        /\ paddleFlipped /\ last.bw.dx < 0 => overlapsLeft(last.bw)
        /\ last.bw.dx > 0 /\ ~overlapsRight(last.bw) => ~paddleFlipped
        /\ last.bw.dx < 0 /\ ~overlapsLeft(last.bw) => ~paddleFlipped
\* A ball moving right overlapped the left paddle and was not reflected.
C23_Witness ==
    /\ wasFrame
    /\ last.bw.dx > 0
    /\ overlapsLeft(last.bw)
    /\ ~paddleFlipped

\* C24: a paddle hit negates dx and changes nothing else: dy, x, y and
\* speed are as the wall step left them, the paddles stay where the paddle
\* controller put them in this frame, and the scores are as before the frame
\* unless the scoring step that follows finds the ball beyond a side edge.
C24_HitFlipsDxOnly ==
    wasFrame /\ paddleFlipped =>
        /\ last.bp = [last.bw EXCEPT !.dx = -last.bw.dx]
        /\ player.y = movePlayer(last.player0.y, last.up0, last.down0)
        /\ computer.y = moveComputer(last.computer0.y, last.ball0.y)
        /\ ~(last.bp.x + radius > canvasWidth \/ last.bp.x - radius < 0)
               => /\ player.score = last.player0.score
                  /\ computer.score = last.computer0.score
                  /\ ball = last.bp
\* A ball off the diagonal and past the paddle's face was hit.
C24_Witness ==
    /\ wasFrame
    /\ paddleFlipped
    /\ Abs(last.bw.dy) < last.bw.speed
    /\ last.bw.dy # 0
    /\ last.bw.x - radius < paddleWidth - Px(1)

\* C25: in every frame the paddles move before the ball: the computer
\* paddle decides on ball.y as the frame before left it, not on the ball's
\* new y, and the paddle tests use the paddle positions of this frame, not
\* those the frame started with.
C25_PaddlesBeforeBall ==
    wasFrame =>
        LET c0 == last.computer0.y
            centre == c0 + paddleHeight \div 2
        IN  /\ computer.y > c0 <=> centre < last.ball0.y - deadZone
            /\ computer.y < c0 <=> centre > last.ball0.y + deadZone
            /\ paddleFlipped <=> IF last.bw.dx < 0 THEN overlapsLeft(last.bw)
                                  ELSE overlapsRight(last.bw)
\* A ball was hit that was outside the band of the human paddle as the
\* frame found it, and inside the band once the paddle had moved.
C25_Witness ==
    /\ wasFrame
    /\ last.bw.dx < 0
    /\ paddleFlipped
    /\ player.y # last.player0.y
    /\ ~(last.bw.y > last.player0.y /\ last.bw.y < last.player0.y + paddleHeight)

\* C26: ball.speed lies between half and twice baseBallSpeed in every
\* state, whatever value currentBPM held when updateBallSpeed() ran.
C26_SpeedClamp ==
    /\ 2 * ball.speed >= baseBallSpeed
    /\ ball.speed <= 2 * baseBallSpeed
\* A call has run on a tempo whose power curve lies above the upper bound,
\* from a ball that was slower.
C26_Witness ==
    /\ wasUpdate
    /\ last.bpm0 > detectMaxBPM /\ last.bpm0 # absentBPM
    /\ Pow07(last.bpm0) > maxMultiplier
    /\ ball.speed = 2 * baseBallSpeed
    /\ last.ball0.speed < ball.speed

\* C27: the key flags are levels the frames read: a frame changes neither
\* flag; a frame that finds ArrowUp held, ArrowDown not held and
\* player.y > 0 moves the paddle up by exactly 7, a frame that finds
\* ArrowDown held, ArrowUp not held and player.y + 100 < height moves it down
\* by exactly 7; a key event of any other key changes neither flag.
C27_HeldKeysAreLevels ==
    /\ wasFrame => /\ upPressed = last.up0
                   /\ downPressed = last.down0
    /\ wasFrame /\ last.up0 /\ ~last.down0 /\ last.player0.y > 0
           => player.y = last.player0.y - playerStep
    /\ wasFrame /\ last.down0 /\ ~last.up0
                /\ last.player0.y + paddleHeight < canvasHeight
           => player.y = last.player0.y + playerStep
    /\ last.op = "key" /\ last.key \notin {"ArrowUp", "ArrowDown"}
           => /\ upPressed = last.up0
              /\ downPressed = last.down0
\* With one keydown of ArrowUp behind it, a frame has moved the paddle up
\* from less than 7 pixels below the top edge; the frames before it moved
\* it there.
C27_Witness ==
    /\ wasFrame
    /\ upPressed /\ ~downPressed
    /\ last.player0.y > 0
    /\ last.player0.y < playerStep
    /\ player.y = last.player0.y - playerStep

\* ---- the music toggle under AudioSpec ----
\* The step was the end of a toggleMusic() call whose play branch failed:
\* there was no audio context to read the state of, or the promise of
\* resume() or of play() was rejected.
toggleFailed ==
    \/ /\ last.op = "afterInitAudio"
       /\ ~last.audio0.isMusicPlaying
       /\ last.audio0.audioContext = "null"
    \/ last.op \in {"resumeResolved", "playResolved"} /\ ~last.ok

\* C28: when a toggleMusic() call ends in a failure to start playback
\* (no audio context, resume() rejected, play() rejected), isMusicPlaying is
\* false and the label reads Music Off as the call ends; isMusicPlaying
\* turns from false to true only in the step in which a play() promise
\* resolved.
C28_FailedPlayLeavesOff ==
    /\ toggleFailed => /\ ~isMusicPlaying
                       /\ musicToggleText = "Music Off"
    /\ isMusicPlaying /\ ~last.audio0.isMusicPlaying
           => last.op = "playResolved" /\ last.ok
\* The play() promise of one call was rejected after the promise of another
\* call had resolved and switched the music on.
C28_Witness ==
    /\ last.op = "playResolved"
    /\ ~last.ok
    /\ last.audio0.isMusicPlaying
    /\ last.audio0.musicToggleText = "Music On"
    /\ ~isMusicPlaying

\* ---- the [0.25, 1.0] mapper under VariantSpec ----
wasVariantUpdate == last.op = "variantUpdate"
\* The tempo the call started from is one the guard keeps.
keptBPM(bpm) == bpm # absentBPM /\ bpm >= minBPM

\* C29 as stated: for every valid tempo the variant's updateBallSpeed()
\* leaves ball.speed = baseBallSpeed * clamp((bpm/120)^0.7, 0.25, 1.0), and
\* at 120 it leaves baseBallSpeed.
C29_VariantIsCanonicalRebounded ==
    wasVariantUpdate /\ keptBPM(last.bpm0) =>
        /\ ball.speed =
               timesBase(Max(PowUnit \div 4, Min(PowUnit, Pow07(last.bpm0))))
        /\ last.bpm0 = defaultBPM => ball.speed = baseBallSpeed

\* C29, amended: the variant halves the power curve before clamping it to
\* [0.25, 1.0]: for every valid tempo its updateBallSpeed() leaves half the
\* speed of the [0.5, 2.0] mapper (to the model unit, which rounds both),
\* between a quarter of baseBallSpeed and baseBallSpeed, and at 120 it leaves
\* half of baseBallSpeed.
C29_VariantIsHalfCanonical ==
    wasVariantUpdate /\ keptBPM(last.bpm0) =>
        /\ Abs(2 * ball.speed - speedFor(last.bpm0)) <= 1
        /\ 4 * ball.speed >= baseBallSpeed
        /\ ball.speed <= baseBallSpeed
        /\ last.bpm0 = defaultBPM => 2 * ball.speed = baseBallSpeed
\* The variant was called at 120 on the ball it starts the game with.
C29_Witness ==
    /\ wasVariantUpdate
    /\ last.bpm0 = defaultBPM
    /\ last.ball0.speed = baseBallSpeed
    /\ 2 * ball.speed = baseBallSpeed

\* ---- the scores over an execution ----
\* C30: both scores are non-negative in every state; no step lowers
\* either; a frame raises their sum by at most 1; and a step that is not a
\* frame (a key event, a tempo update, a handler of the music controls, a
\* detector callback) leaves both as they were.
C30_ScoresMonotone ==
    /\ player.score >= 0
    /\ computer.score >= 0
    /\ playerGain >= 0
    /\ computerGain >= 0
    /\ playerGain + computerGain <= 1
    /\ ~wasFrame => playerGain = 0 /\ computerGain = 0
\* A tempo update has run after a frame in which a point was scored.
C30_Witness ==
    /\ wasTempo
    /\ framesLeft < GridFrames
    /\ player.score + computer.score >= 1
    /\ ball.speed # last.ball0.speed

\* ---- the scoring step of a frame, under FrameSpec ----
scored == wasFrame /\ playerGain + computerGain > 0

\* C31: a frame in which a point is scored raises one score by 1 and, in
\* its scoring step, rewrites only ball.x, ball.y, ball.dx and ball.dy:
\* ball.speed, currentBPM and the key flags are as the frame found them and
\* both paddles are where the paddle controller put them in this frame.
C31_ScoreResetsOnlyBall ==
    scored =>
        /\ playerGain + computerGain = 1
        /\ ball.speed = last.bp.speed
        /\ last.bp.speed = last.ball0.speed
        /\ currentBPM = last.bpm0
        /\ upPressed = last.up0
        /\ downPressed = last.down0
        /\ player.y = movePlayer(last.player0.y, last.up0, last.down0)
        /\ computer.y = moveComputer(last.computer0.y, last.ball0.y)
\* A point was scored in a frame that moved both paddles, neither of them
\* to the middle.
C31_Witness ==
    /\ scored
    /\ player.y # last.player0.y
    /\ computer.y # last.computer0.y
    /\ player.y # playerInit.y
    /\ computer.y # computerInit.y

\* C32: in every state |ball.dx| = ball.speed, and ball.dx is not zero.
C32_HorizontalSpeed ==
    /\ Abs(ball.dx) = ball.speed
    /\ ball.dx # 0
\* The ball was served to the left at a speed a tempo update had set.
C32_Witness ==
    /\ scored
    /\ ball.speed # baseBallSpeed
    /\ ball.dx = -ball.speed
    /\ ball.dy # ball.dx /\ ball.dy # -ball.dx

\* C33: at the end of every frame the ball is not past a side edge:
\* radius <= ball.x <= canvasWidth - radius.
C33_BallInsideSides ==
    wasFrame => radius <= ball.x /\ ball.x <= canvasWidth - radius
\* A frame has left the ball touching the right edge, and one has left it
\* there with no paddle behind it.
C33_Witness ==
    /\ wasFrame
    /\ ~scored
    /\ ball.x = canvasWidth - radius
    /\ ball.dx > 0

\* C34 as stated: in no frame does the paddle step negate dx and the
\* scoring step of the same frame raise a score.
C34_HitExcludesScore == ~(wasFrame /\ paddleFlipped /\ scored)

\* ---- rallies under LiveSpec ----
\* C35: with the frame loop kept running, from every state that has at
\* least the frames of one crossing left, a frame follows in which a paddle
\* negates dx or a point is scored, whatever tempo updates come in between.
C35_RalliesProgress ==
    (framesLeft >= RallyFrames) ~> (wasFrame /\ (paddleFlipped \/ scored))
\* The human paddle returned a ball that a tempo update had slowed down on
\* its way.
C35_Witness ==
    /\ wasFrame
    /\ paddleFlipped
    /\ last.bw.dx < 0
    /\ ball.speed < baseBallSpeed
    /\ framesLeft < LiveFrames - RallyFrames

\* ---- the detector's estimate under AudioSpec ----
\* A detectBPM callback closed a measurement window: it read the clock into
\* lastUpdateTime.
windowClosed == last.op = "detect" /\ lastUpdateTime # last.audio0.lastUpdateTime

\* C36: in every state 60 <= currentBPM <= 200, whatever samples and clock
\* readings the detector gets; a callback that closes a measurement window
\* with no beat counted leaves currentBPM, and the ball, as they were.
C36_TempoInRange ==
    /\ detectMinBPM <= currentBPM
    /\ currentBPM <= detectMaxBPM
    /\ windowClosed /\ last.audio0.beatCount = 0
           => currentBPM = last.bpm0 /\ ball = last.ball0
\* A window closed on a count that gives more than 200 beats a minute, and
\* 200 was published.
C36_Witness ==
    /\ windowClosed
    /\ last.audio0.beatCount > 0
    /\ roundedBPM(last.audio0.beatCount,
                  lastUpdateTime - last.audio0.lastUpdateTime) > detectMaxBPM
    /\ currentBPM = detectMaxBPM
    /\ last.bpm0 = defaultBPM

\* ---- initAudio and its polling chain under AudioSpec ----
\* The click ran initAudio() past its guard: there was no audio context.
bodyEntered == last.op = "click" /\ last.audio0.audioContext = "null"
\* With no audio context, an earlier toggleMusic() has been through
\* initAudio() already: it is still suspended at await initAudio(), or it
\* has gone on and ended in the catch of the play branch.
enteredBefore ==
    \/ last.audio0.toggles["initAudio"] > 0
    \/ last.audio0.musicToggleText = "Music Off"

\* C37 as stated: initAudio's body runs at most once and at most one
\* detectBPM chain is scheduled, for any sequence and interleaving of clicks.
C37_InitAudioOnce ==
    /\ bodyEntered => ~enteredBefore
    /\ detectChains <= 1

\* C37, amended: at most one audio context is constructed and at most one
\* detectBPM chain is scheduled, for any sequence and interleaving of
\* clicks: once a context exists it stays, no later click runs initAudio's
\* body, at most one call is suspended at the await in initAudio() and none
\* once the chain is started.  The body runs again only for a click that
\* finds no context because every construction before it threw.
C37_OneContextOneChain ==
    /\ detectChains <= 1
    /\ toggles["initResume"] + detectChains <= 1
    /\ audioContext = "null" => toggles["initResume"] = 0 /\ detectChains = 0
    /\ last.audio0.audioContext # "null" => audioContext # "null"
    /\ last.op = "click" /\ last.audio0.audioContext # "null"
           => /\ toggles["initResume"] = last.audio0.toggles["initResume"]
              /\ toggles["initAudio"] = last.audio0.toggles["initAudio"]
    /\ detectChains # last.audio0.detectChains
           => last.op = "initResumed" /\ last.ok /\ last.audio0.detectChains = 0
\* initAudio() started the chain while a second toggleMusic(), clicked
\* during its await, was suspended in the play branch.
C37_Witness ==
    /\ last.op = "initResumed"
    /\ last.ok
    /\ detectChains = 1
    /\ toggles["resume"] + toggles["play"] >= 1
    /\ toggles["initAudio"] = 1

\* Two toggleMusic() calls have been made since the script was loaded, with
\* no move of the volume slider, and the step just taken ended the second
\* of them to finish; neither ended in a catch: the step was a pause, which
\* only a call that found the music switched on by the other takes, or a
\* play() that resolved with the music already switched on by the other.
bothTogglesDone ==
    /\ clicksLeft = MaxClicks - 2
    /\ volume = "slider"
    /\ toggles = noToggles
    /\ detectChains = 1
    /\ \/ last.op = "pauseResolved"
       \/ last.op = "playResolved" /\ last.ok /\ last.audio0.isMusicPlaying

\* C38 as stated: when two toggleMusic() calls have both finished without a
\* playback error, however their awaits interleave, isMusicPlaying is what it
\* was before the first began (false, as the script leaves it).
C38_TwoTogglesRestore == bothTogglesDone => ~isMusicPlaying

============================================================================
